---- MODULE Spec2Model ----
(***************************************************************************)
(* Model of the media submission pipeline of reddit_img.py.                *)
(*                                                                         *)
(* Three entry points are modelled, chosen in Init by fn:                  *)
(*   safe_submit_video   (lines 672-779)                                   *)
(*   upload_to_reddit    (lines 853-953)                                   *)
(*   submit_video_direct (lines 460-511), called on its own with a         *)
(*                        thumbnail given as a file path or not at all     *)
(* Every external call (ffprobe, ffmpeg, HTTP, the PRAW client) is one     *)
(* action whose outcome is chosen nondeterministically.  The recursion of  *)
(* safe_submit_video (line 743, a tail call whose value is returned        *)
(* unchanged) is modelled as a restart with depth + 1.                     *)
(***************************************************************************)
EXTENDS Integers, FiniteSets, Sequences, TLC

\* ---------------------------------------------------------------- bounds
\* Cap on the number of recursive restarts explored (the code has none).
MaxRestarts == 2
\* Cap on the number of delete calls that fail in one run.
MaxDeleteFailures == 2

\* ------------------------------------------------------ program constants
MAX_RETRIES == 15
max_retries == 6
find_max_retries == 3
target_size == 700000000

\* ------------------------------------------------------------ value sets
None == "None"
\* A post handle is known by where the post comes from: one the account held
\* before the call ("pre") or one a submit call of this run created ("new").
Origins == {"pre", "new"}
\* The (title, video_path) arguments tried.
Arguments == {<<"title A", "/v/a.mp4">>, <<"title B", "/v/b.mp4">>}
TempVideo == "/tmp/tmpvideo.mp4"
TempThumbnail == "/tmp/tmpthumb.jpg"
EntryPoints == {"safe_submit_video", "upload_to_reddit", "submit_video_direct"}

\* What ffprobe can answer for the artifact: the tool missing, a non-zero
\* exit, output that does not parse, or a parsed record.
Durations == {0, 1, 2, 30, 840, 841, 900, 901, 1000}
Sizes == {50000000, 1000000000, 1000000001}
StreamSets == {{}, {"audio"}, {"video"}, {"video", "audio"}}
ProbeTools == {"missing", "exit_nonzero", "malformed", "ok"}
Probes ==
    [tool : ProbeTools, duration : Durations, size : Sizes, streams : StreamSets]

\* Answers of the lease endpoints, of object storage and of the submit
\* endpoint, as far as the code distinguishes them.
LeaseResponses ==
    {"ok", "http_error", "connection_error", "no_fields", "stat_error"}
S3Responses == {"location", "http_error", "no_location", "empty_location"}
SubmitResponses == {"ok", "empty_page", "malformed", "http_error"}
FetchResults ==
    {"raise", "no_media", "no_reddit_video", "no_secure_media",
     "no_fallback_url", "fallback_url"}
HeadStatuses == {200, 403, 404}
\* The media functions that are also called on their own.
\* The temporary files: temp_video_path of generate_thumbnail and of
\* validate_and_convert_video, temp_video and temp_thumbnail of
\* upload_to_reddit.
ThumbnailInput == "generate_thumbnail:temp_video_path"
TrimInput == "validate_and_convert_video:temp_video_path"
UploadFiles == {"temp_video", "temp_thumbnail"}
\* Widths and heights of a video stream: landscape, portrait and square.
Dimensions == {<<1920, 1080>>, <<1080, 1920>>, <<720, 720>>, <<1280, 720>>}
ToolNames ==
    {"validate_video", "is_valid_mp4", "convert_video",
     "validate_and_convert_video", "generate_thumbnail"}

VARIABLES
    fn, title, video_path,          \* the entry point and its arguments
    pc,                             \* the statement about to run
    depth,                          \* recursive restarts so far
    valid,                          \* is_valid_mp4's answer in this activation
    thumbnail,                      \* thumbnail_data / thumbnail_path
    token, video_lease, video_url,  \* locals of submit_video_direct
    thumbnail_lease, video_poster_url, post_url,
    live_pre, live_new,             \* the platform: live posts carrying the title
    submit_data,                    \* the body of the last submit request
    submission, attempt, media, head_status,  \* locals of the poll loops
    fetches,                        \* fetches of the held post
    searches,                       \* title searches of this activation
    exit, result,                   \* the return statement taken and its value
    called, issued, failed,         \* steps entered, requests sent, steps failed
    calls,                          \* call counts, as a mock would record them
    direct_args, fallback_args,     \* arguments of the last submitter calls
    processed_video,                \* upload_to_reddit's artifact after line 876
    tool, probe_output,             \* a media function called on its own, and
                                    \* what ffprobe answers for its input
    tool_pc, tool_ret,              \* its position and its return value
    tool_done,                      \* the external steps it has run
    encoder_args,                   \* the options given to the encoder
    info, width, height,            \* locals of convert_video: the parsed
    scale_filter,                   \* dimension probe, what it read, the -vf
    temp_files,                     \* the temporary files that exist
    unlink_failed,                  \* the files whose removal raised
    driver,                         \* main or crosspost_to_subreddits, when run
    main_pc, main_exit,             \* main: position, the way it ended
    initial_report, file, url,      \* main: its locals
    deleted,                        \* main: the source file's deletion
    sent,                           \* the notifications handed to Telegram
    logged,                         \* the error records written
    cp_pc,                          \* crosspost_to_subreddits: position
    original_submission, target_subs, custom_title,  \* its arguments
    index,                          \* the target the loop is at
    successful_crossposts, failed_crossposts,        \* its two lists
    attempts,                       \* the outcome of each attempt so far
    crosspost_result                \* what it returned

main_frame ==
    <<main_pc, main_exit, initial_report, file, url, deleted, sent, logged>>
crosspost_frame ==
    <<cp_pc, original_submission, target_subs, custom_title, index,
      successful_crossposts, failed_crossposts, attempts, crosspost_result>>
caller == <<driver, main_frame, crosspost_frame>>
arguments == <<fn, title, video_path>>
inputs == <<arguments, caller>>
direct_locals ==
    <<token, video_lease, video_url, thumbnail_lease, video_poster_url, post_url>>
convert_locals == <<info, width, height, scale_filter>>
tooling ==
    <<tool, probe_output, tool_pc, tool_ret, tool_done, encoder_args,
      convert_locals>>
storage == <<temp_files, unlink_failed>>
aside == <<tooling, processed_video, storage>>
remote == <<live_pre, live_new>>
poll_locals ==
    <<submission, attempt, media, head_status, fetches, searches>>
outcome == <<exit, result>>
history ==
    <<called, issued, failed, calls, direct_args, fallback_args, submit_data>>
vars ==
    <<inputs, pc, depth, valid, thumbnail, direct_locals, remote, poll_locals,
      outcome, history, processed_video, tooling, storage>>

NoResult == [kind |-> "unset", post |-> None]
ReturnNone == [kind |-> None, post |-> None]
Raised == [kind |-> "raise", post |-> None]
ZeroCalls ==
    [validate |-> 0, direct |-> 0, fallback |-> 0,
     ghost |-> 0, delete |-> 0, delete_ok |-> 0]

Count(name) == [calls EXCEPT ![name] = @ + 1]

\* --------------------------------------------------------- pure functions

\* A variant of is_valid_mp4 that turns away a duration of exactly 900.
is_valid_mp4_below_900(probe) ==
    CASE probe.tool = "missing" -> TRUE
      [] probe.tool \in {"exit_nonzero", "malformed"} -> FALSE
      [] OTHER ->
            /\ ~(probe.duration <= 0 \/ probe.duration >= 900)
            /\ ~(probe.size > 1000000000)
            /\ "video" \in probe.streams

\* A variant of is_valid_mp4 that fails without the probing tool.
is_valid_mp4_needs_tool(probe) ==
    CASE probe.tool \in {"missing", "exit_nonzero", "malformed"} -> FALSE
      [] OTHER ->
            /\ ~(probe.duration <= 0 \/ probe.duration > 900)
            /\ ~(probe.size > 1000000000)
            /\ "video" \in probe.streams

\* is_valid_mp4 (lines 164-203): a pass when ffprobe is missing; a failure
\* when the tool exits non-zero (check=True raises) or its output does not
\* parse; otherwise the three rules on duration, size and video stream.
is_valid_mp4(probe) ==
    CASE probe.tool = "missing" -> TRUE
      [] probe.tool \in {"exit_nonzero", "malformed"} -> FALSE
      [] OTHER ->
            /\ ~(probe.duration <= 0 \/ probe.duration > 900)
            /\ ~(probe.size > 1000000000)
            /\ "video" \in probe.streams

\* A variant of validate_video that turns away a duration of exactly 2.
validate_video_over_2(p) ==
    CASE p.tool = "missing" -> TRUE
      [] p.tool \in {"exit_nonzero", "malformed"} -> FALSE
      [] OTHER -> ~(p.duration <= 2) /\ "audio" \in p.streams

\* A variant of validate_video that applies the three light rules as well.
validate_video_with_light_rules(p) ==
    CASE p.tool = "missing" -> TRUE
      [] p.tool \in {"exit_nonzero", "malformed"} -> FALSE
      [] OTHER ->
            /\ ~(p.duration < 2) /\ "audio" \in p.streams
            /\ ~(p.duration > 900) /\ ~(p.size > 1000000000)
            /\ "video" \in p.streams

\* validate_video (lines 124-162): a pass when ffprobe is missing; a failure
\* on a non-zero exit (line 139) or output that does not parse (line 160);
\* otherwise the two rules on duration and audio stream, and no other.
validate_video(p) ==
    CASE p.tool = "missing" -> TRUE
      [] p.tool \in {"exit_nonzero", "malformed"} -> FALSE
      [] OTHER -> ~(p.duration < 2) /\ "audio" \in p.streams

\* Lines 599-603 of validate_and_convert_video: the probe is run without a
\* check for the tool or its exit code; anything but parsed output raises.
ProbeUsable(p) == p.tool = "ok"

\* A variant of the thresholds that converts from 840 s on.
needs_conversion_from_840(p) == p.duration >= 840 \/ p.size > 1000000000

\* Lines 609 and 614.
needs_conversion(p) == p.duration > 840 \/ p.size > 1000000000

\* Line 619: int((target_size * 8) / duration), kept as the pair
\* <<whole bytes per second, bits over>>, whose value is 8 * [1] + [2].
target_bitrate(duration) ==
    <<target_size \div duration, (8 * (target_size % duration)) \div duration>>

\* Line 619 divides by the probed duration.
BitrateComputable(p) == ~(p.size > 1000000000 /\ p.duration = 0)

\* Lines 607-620: the options added to the encoder's command line.
NoArgs == [t |-> "absent", bv |-> <<>>]
conversion_params(p) ==
    [t |-> IF p.duration > 840 THEN "840" ELSE "absent",
     bv |-> IF p.size > 1000000000 THEN target_bitrate(p.duration) ELSE <<>>]

\* A variant of validate_and_convert_video that hands the original back
\* when the encoder fails.
validate_and_convert_video_keeps_original(p, encoded) ==
    IF ~ProbeUsable(p) \/ ~BitrateComputable(p) THEN None
    ELSE IF needs_conversion(p) /\ encoded THEN "converted"
    ELSE "original"

\* validate_and_convert_video (lines 582-670) as its caller sees it: None on
\* any error, the buffer it was given when nothing is to be converted, the
\* encoder's output otherwise.
validate_and_convert_video(p, encoded) ==
    IF ~ProbeUsable(p) \/ ~BitrateComputable(p) THEN None
    ELSE IF needs_conversion(p) THEN (IF encoded THEN "converted" ELSE None)
    ELSE "original"

\* Did the policy fail: the probe raised, the bitrate could not be computed,
\* or the encoder exited non-zero (line 647)?
TrimFailed(p, encoded) ==
    ~ProbeUsable(p) \/ ~BitrateComputable(p) \/ (needs_conversion(p) /\ ~encoded)

\* A variant of convert_video that trusts the encoder's output.
RevalidationSkipped(out) == TRUE

\* Line 247: the converted file is put to is_valid_mp4.
RevalidationPasses(out) == is_valid_mp4(out)

\* A variant of convert_video that returns nothing after an error.
ConvertFallbackNone == None

\* Line 265: what convert_video returns after any error.
ConvertFallback == "input_path"

\* How a validator's answer is held in tool_ret.
BoolRet(b) == IF b THEN "True" ELSE "False"

\* get_video_upload_lease (lines 330-379).  The re-raise of line 379 is
\* nested under `if hasattr(e, 'response')`: an error without that attribute
\* (the plain Exception of line 370, an OSError of os.path.getsize) is logged
\* and the function returns None; a requests error carries the attribute
\* (None for a connection error, where line 378 itself raises).
get_video_upload_lease(response) ==
    CASE response = "ok" -> "lease"
      [] response \in {"http_error", "connection_error"} -> "raise"
      [] OTHER -> None

\* get_thumbnail_upload_lease (lines 381-430): line 430 re-raises always.
get_thumbnail_upload_lease(response) ==
    IF response = "ok" THEN "lease" ELSE "raise"

\* Whether a lease call got as far as its HTTP request (lines 340/391 run
\* os.path.getsize first).
LeaseRequestSent(response) == response # "stat_error"

\* What os.path.getsize lets through at line 391: thumbnail_data is an
\* io.BytesIO in safe_submit_video (line 689), for which it raises TypeError.
ThumbnailLeaseResponses(thumb) ==
    IF thumb = "BytesIO" THEN {"stat_error"} ELSE LeaseResponses

\* upload_to_s3 on a lease (lines 440-454): the text of the Location element,
\* which is None for an empty element; an error when the request fails or
\* the element is absent.
upload_to_s3(response) ==
    CASE response = "location" -> "loc"
      [] response = "empty_location" -> None
      [] OTHER -> "raise"

\* Lines 501-507: the value of user_submitted_page, or an error.
SubmitResult(response) ==
    CASE response = "ok" -> "href"
      [] response = "empty_page" -> ""
      [] OTHER -> "raise"

\* Python truthiness of the values held in these variables.
Truthy(v) == v \notin {None, "", "unset"}

\* A variant of the ghost test that also takes a video object without a
\* playback URL for a ghost.
IsGhostOrUnplayable(fetched) ==
    fetched \in {"no_media", "no_reddit_video", "no_fallback_url"}

\* Line 738: not submission.media or "reddit_video" not in submission.media.
IsGhost(fetched) == fetched \in {"no_media", "no_reddit_video"}

\* A variant of the existence check that only takes 404 for absence.
HeadOkUnless404(status) == status # 404

\* Line 749.
HeadOk(status) == status = 200

\* A variant of the loop test that is off by one.
AttemptLeftInclusive(a) == a < MAX_RETRIES

\* Lines 756 and 761: is another attempt left in the loop of line 732?
AttemptLeft(a) == a < MAX_RETRIES - 1

\* ----------------------------------------------------------------- Init

\* The locals of submit_video_direct are gone when it returns; its value
\* lives on in the caller's post_url (line 689).
DropDirectLocals ==
    /\ token' = "unset" /\ video_lease' = "unset" /\ video_url' = "unset"
    /\ thumbnail_lease' = "unset" /\ video_poster_url' = "unset"

\* No media function is called on its own.
NoProbe == [tool |-> "none", duration |-> 0, size |-> 0, streams |-> {}]
\* convert_video's locals before lines 218-226 have run.
NoInfo == [parsed |-> FALSE, streams |-> <<>>]
ConvertIdle ==
    info = NoInfo /\ width = 0 /\ height = 0 /\ scale_filter = "unset"
ToolsIdle ==
    /\ tool = "none" /\ probe_output = NoProbe /\ tool_pc = "idle"
    /\ tool_ret = "unset" /\ tool_done = {} /\ encoder_args = NoArgs
    /\ ConvertIdle

\* crosspost_to_subreddits is not running: its locals before line 1046.
NoTally == [successful |-> <<>>, failed |-> <<>>, total_attempted |-> 0]
CrosspostIdle ==
    /\ cp_pc = "idle" /\ original_submission = "unset" /\ target_subs = <<>>
    /\ custom_title = "unset" /\ index = 1
    /\ successful_crossposts = <<>> /\ failed_crossposts = <<>>
    /\ attempts = <<>> /\ crosspost_result = NoTally

\* main is not running: its locals before line 1228.
MainIdle ==
    /\ main_pc = "idle" /\ main_exit = "running"
    /\ initial_report = "unset" /\ file = "unset" /\ url = NoResult
    /\ deleted = "unset" /\ sent = <<>> /\ logged = {}

\* Neither main nor crosspost_to_subreddits is running.
CallerIdle == driver = "none" /\ MainIdle /\ CrosspostIdle

\* No temporary file exists.
StorageIdle == temp_files = {} /\ unlink_failed = {}

\* What becomes of the temporary copy in generate_thumbnail (lines 537-539,
\* 571-577) and in validate_and_convert_video (lines 586-588, 661-666): the
\* write inside the `with` raises before the try/finally is entered and the
\* file stays; else the finally unlinks it, and an error of the unlink is
\* logged and dropped.
TempFileOutcomes == {"write_failed", "removed", "unlink_failed"}

\* Does the temporary copy exist when the function has returned?
TempFileLeft(o) == o \in {"write_failed", "unlink_failed"}

\* The files and the failed removals after a call that handled file f with
\* outcome o.
AfterTempFile(f, o) ==
    /\ temp_files' = IF TempFileLeft(o) THEN temp_files \cup {f} ELSE temp_files
    /\ unlink_failed' = IF o = "unlink_failed"
                           THEN unlink_failed \cup {f} ELSE unlink_failed

\* The finally of upload_to_reddit (lines 945-953) on the files given: the
\* pairs of what is left and which removal raised.  temp_video is removed
\* first; an error of a removal ends the block, so temp_thumbnail stays when
\* the removal of temp_video raised.  A temp_thumbnail that was never
\* assigned raises too, after temp_video is gone.
CleanupOutcomes(files) ==
    {<<files \ UploadFiles, {}>>}
      \cup (IF "temp_video" \in files THEN {<<files, {"temp_video"}>>} ELSE {})
      \cup (IF "temp_thumbnail" \in files
              THEN {<<files \ {"temp_video"}, {"temp_thumbnail"}>>} ELSE {})

\* Lines 945-953 run when upload_to_reddit ends with the files given.
UploadCleanup(files) ==
    \E o \in CleanupOutcomes(files) :
        /\ temp_files' = o[1]
        /\ unlink_failed' = unlink_failed \cup o[2]

\* Lines 945-953, for a statement that may end the call.
UploadFinally ==
    IF pc' = "done" THEN UploadCleanup(temp_files) ELSE UNCHANGED storage

EntryPc(f) ==
    CASE f = "safe_submit_video" -> "validate"
      [] f = "upload_to_reddit" -> "download"
      [] OTHER -> "token"

Init ==
    /\ fn \in EntryPoints
    /\ \E a \in Arguments : title = a[1] /\ video_path = a[2]
    /\ pc = EntryPc(fn)
    /\ depth = 0
    /\ valid = "unchecked"
    /\ thumbnail \in (IF fn = "submit_video_direct" THEN {None, "path"} ELSE {"unset"})
    /\ token = "unset" /\ video_lease = "unset" /\ video_url = "unset"
    /\ thumbnail_lease = "unset" /\ video_poster_url = "unset"
    /\ post_url = "unset"
    /\ live_pre \in BOOLEAN
    /\ live_new = 0
    /\ submission = None /\ attempt = 0 /\ media = "unset" /\ head_status = 0
    /\ fetches = 0 /\ searches = 0
    /\ exit = "running" /\ result = NoResult
    /\ called = {} /\ issued = {} /\ failed = {}
    /\ calls = IF fn = "submit_video_direct"
                THEN [ZeroCalls EXCEPT !.direct = 1] ELSE ZeroCalls
    /\ direct_args = IF fn = "submit_video_direct"
                      THEN <<title, video_path, thumbnail>> ELSE <<>>
    /\ fallback_args = <<>>
    /\ submit_data = <<>>
    /\ processed_video = "unset"
    /\ ToolsIdle
    /\ StorageIdle
    /\ CallerIdle

\* The platform creates a post carrying the title.
PostCreated == live_new' = live_new + 1 /\ UNCHANGED live_pre

\* The posts a title search can come back with.
LiveOrigins ==
    (IF live_pre THEN {"pre"} ELSE {}) \cup (IF live_new > 0 THEN {"new"} ELSE {})

\* -------------------------------------------------- safe_submit_video

\* A variant of the outer handler that logs and lets the error out.
SafeExceptReraises ==
    /\ pc' = "done"
    /\ exit' = "raise"
    /\ result' = [kind |-> "raise", post |-> None]

\* Lines 769-771: the outer handler logs and returns None.
SafeExcept ==
    /\ pc' = "done"
    /\ exit' = "exception"
    /\ result' = ReturnNone

\* Lines 675-676: the validator gates the activation.
Validate ==
    /\ pc = "validate"
    /\ \E probe \in Probes :
          /\ valid' = IF is_valid_mp4(probe) THEN "pass" ELSE "reject"
          /\ IF is_valid_mp4(probe)
                THEN pc' = "thumbnail" /\ UNCHANGED outcome
                ELSE SafeExcept
    /\ calls' = Count("validate")
    /\ UNCHANGED <<inputs, aside, depth, thumbnail, direct_locals, remote, poll_locals,
                   called, issued, failed, direct_args, fallback_args,
                   submit_data>>

\* generate_thumbnail (lines 531-580) when ffmpeg gives frame: the frame,
\* or None when the temporary copy could not be written.
generate_thumbnail(frame, o) == IF o = "write_failed" THEN None ELSE frame

\* Lines 679-684: read the file, extract the poster frame; a missing
\* thumbnail only logs a warning.
Thumbnail ==
    /\ pc = "thumbnail"
    /\ \E r \in {"read_error", None, "BytesIO"}, o \in TempFileOutcomes :
          IF r = "read_error"
            THEN SafeExcept /\ UNCHANGED <<thumbnail, storage>>
            ELSE /\ thumbnail' = generate_thumbnail(r, o)
                 /\ AfterTempFile(ThumbnailInput, o)
                 /\ pc' = "direct_call"
                 /\ UNCHANGED outcome
    /\ UNCHANGED <<inputs, tooling, processed_video, depth, valid, direct_locals,
                   remote, poll_locals, history>>

\* The arguments safe_submit_video hands to submit_video_direct (line 689).
DirectArgs == <<title, video_path, thumbnail>>

\* Line 689: the call of submit_video_direct.
DirectCall ==
    /\ pc = "direct_call"
    /\ pc' = "token"
    /\ calls' = Count("direct")
    /\ direct_args' = DirectArgs
    /\ called' = called \cup {"direct"}
    /\ UNCHANGED <<inputs, aside, depth, valid, thumbnail, direct_locals, remote,
                   poll_locals, outcome, issued, failed, fallback_args,
                   submit_data>>

\* ------------------------------------------------ submit_video_direct

\* The steps of submit_video_direct (lines 464-507), by name.
DirectSteps ==
    {"token", "video_lease", "video_upload", "thumbnail_lease",
     "thumbnail_upload", "submit"}

\* Lines 509-511: any error of a step is logged and None is returned.
DirectFail(step) ==
    /\ post_url' = None
    /\ failed' = failed \cup {step}
    /\ pc' = "direct_ret"

\* Line 464.
GetToken ==
    /\ pc = "token"
    /\ called' = called \cup {"token"}
    /\ issued' = issued \cup {"token"}
    /\ \E ok \in BOOLEAN :
          IF ok
            THEN /\ token' = "token" /\ pc' = "vlease"
                 /\ UNCHANGED <<post_url, failed>>
            ELSE DirectFail("token") /\ UNCHANGED token
    /\ UNCHANGED <<inputs, aside, depth, valid, thumbnail, video_lease, video_url,
                   thumbnail_lease, video_poster_url, remote, poll_locals,
                   outcome, calls, direct_args, fallback_args, submit_data>>

\* Line 467.  A lease call that returns None has failed, and goes on.
GetVideoLease ==
    /\ pc = "vlease"
    /\ called' = called \cup {"video_lease"}
    /\ \E r \in LeaseResponses :
          /\ issued' = IF LeaseRequestSent(r)
                          THEN issued \cup {"video_lease"} ELSE issued
          /\ IF get_video_upload_lease(r) = "raise"
                THEN DirectFail("video_lease") /\ UNCHANGED video_lease
                ELSE /\ video_lease' = get_video_upload_lease(r)
                     /\ failed' = IF r = "ok" THEN failed
                                   ELSE failed \cup {"video_lease"}
                     /\ pc' = "vupload"
                     /\ UNCHANGED post_url
    /\ UNCHANGED <<inputs, aside, depth, valid, thumbnail, token, video_url,
                   thumbnail_lease, video_poster_url, remote, poll_locals,
                   outcome, calls, direct_args, fallback_args, submit_data>>

\* Line 472: `if thumbnail_path:`.
AfterVideoUpload == IF Truthy(thumbnail) THEN "tlease" ELSE "submit"

\* Line 437: data = lease['fields'] raises TypeError on a lease of None,
\* before any request is sent.
LeaseUsable(lease) == lease = "lease"

\* Line 468: upload_to_s3(video_lease, video_path).
UploadVideo ==
    /\ pc = "vupload"
    /\ called' = called \cup {"video_upload"}
    /\ IF ~LeaseUsable(video_lease)
         THEN /\ DirectFail("video_upload")
              /\ UNCHANGED <<video_url, issued>>
         ELSE \E r \in S3Responses :
                /\ issued' = issued \cup {"video_upload"}
                /\ IF upload_to_s3(r) = "raise"
                      THEN DirectFail("video_upload") /\ UNCHANGED video_url
                      ELSE /\ video_url' = upload_to_s3(r)
                           /\ pc' = AfterVideoUpload
                           /\ UNCHANGED <<post_url, failed>>
    /\ UNCHANGED <<inputs, aside, depth, valid, thumbnail, token, video_lease,
                   thumbnail_lease, video_poster_url, remote, poll_locals,
                   outcome, calls, direct_args, fallback_args, submit_data>>

\* Line 473.
GetThumbnailLease ==
    /\ pc = "tlease"
    /\ called' = called \cup {"thumbnail_lease"}
    /\ \E r \in ThumbnailLeaseResponses(thumbnail) :
          /\ issued' = IF LeaseRequestSent(r)
                          THEN issued \cup {"thumbnail_lease"} ELSE issued
          /\ IF get_thumbnail_upload_lease(r) = "raise"
                THEN DirectFail("thumbnail_lease") /\ UNCHANGED thumbnail_lease
                ELSE /\ thumbnail_lease' = get_thumbnail_upload_lease(r)
                     /\ pc' = "tupload"
                     /\ UNCHANGED <<post_url, failed>>
    /\ UNCHANGED <<inputs, aside, depth, valid, thumbnail, token, video_lease,
                   video_url, video_poster_url, remote, poll_locals,
                   outcome, calls, direct_args, fallback_args, submit_data>>

\* Line 474.
UploadThumbnail ==
    /\ pc = "tupload"
    /\ called' = called \cup {"thumbnail_upload"}
    /\ issued' = issued \cup {"thumbnail_upload"}
    /\ \E r \in S3Responses :
          IF upload_to_s3(r) = "raise"
            THEN DirectFail("thumbnail_upload") /\ UNCHANGED video_poster_url
            ELSE /\ video_poster_url' = upload_to_s3(r)
                 /\ pc' = "submit"
                 /\ UNCHANGED <<post_url, failed>>
    /\ UNCHANGED <<inputs, aside, depth, valid, thumbnail, token, video_lease,
                   video_url, thumbnail_lease, remote, poll_locals,
                   outcome, calls, direct_args, fallback_args, submit_data>>

\* Lines 483-492: the JSON body of the submit request.
SubmitData ==
    [title |-> title, video_url |-> video_url,
     video_poster_url |-> IF Truthy(video_poster_url)
                            THEN video_poster_url ELSE "absent"]

\* A variant of the platform that has created the post only when its answer
\* names the page.
CreatedOnlyWithHref(r) == {r = "ok"}

\* Lines 495-501: the request is sent and its answer examined afterwards, so
\* the platform may have created the post whatever it answers; an answer
\* naming the page implies it did.
MayHaveCreated(r) == IF r \in {"ok", "empty_page"} THEN {TRUE} ELSE BOOLEAN

\* Lines 495-507: the submit request.
SubmitPost ==
    /\ pc = "submit"
    /\ called' = called \cup {"submit"}
    /\ issued' = issued \cup {"submit"}
    /\ submit_data' = SubmitData
    /\ \E r \in SubmitResponses : \E created \in MayHaveCreated(r) :
          /\ IF created THEN PostCreated ELSE UNCHANGED remote
          /\ IF SubmitResult(r) = "raise"
                THEN DirectFail("submit")
                ELSE /\ post_url' = SubmitResult(r)
                     /\ pc' = "direct_ret"
                     /\ UNCHANGED failed
    /\ UNCHANGED <<inputs, aside, depth, valid, thumbnail, token, video_lease,
                   video_url, thumbnail_lease, video_poster_url, poll_locals,
                   outcome, calls, direct_args, fallback_args>>

\* Line 690: `if post_url:`.
DirectSucceeded(href) == Truthy(href)

\* The return of submit_video_direct: to its caller when called on its
\* own, else lines 690-692 of safe_submit_video.
DirectReturn ==
    /\ pc = "direct_ret"
    /\ IF fn = "submit_video_direct"
         THEN /\ pc' = "done"
              /\ exit' = "direct_return"
              /\ result' = [kind |-> post_url, post |-> None]
         ELSE IF DirectSucceeded(post_url)
                THEN /\ pc' = "done"
                     /\ exit' = "direct"
                     /\ result' = [kind |-> post_url, post |-> None]
                ELSE pc' = "fallback" /\ UNCHANGED outcome
    /\ DropDirectLocals
    /\ UNCHANGED <<inputs, aside, depth, valid, thumbnail, post_url, remote,
                   poll_locals, history>>


\* ------------------------------- safe_submit_video: fallback and polling

\* A variant of the fallback call that submits a temporary copy.
FallbackArgsTempCopy == <<title, TempVideo, thumbnail>>

\* The arguments of subreddit.submit_video at lines 698-701.
FallbackArgs == <<title, video_path, thumbnail>>

\* Lines 698-705: the client library's submit call.  It may raise, and the
\* platform may or may not have created the post either way.
Fallback ==
    /\ pc = "fallback"
    /\ calls' = Count("fallback")
    /\ fallback_args' = FallbackArgs
    /\ called' = called \cup {"fallback"}
    /\ issued' = issued \cup {"fallback"}
    /\ \E raises \in BOOLEAN, created \in BOOLEAN :
          /\ IF created THEN PostCreated ELSE UNCHANGED remote
          /\ IF raises
                THEN SafeExcept
                ELSE pc' = "search" /\ UNCHANGED outcome
    /\ UNCHANGED <<inputs, aside, depth, valid, thumbnail, direct_locals, poll_locals,
                   failed, direct_args, submit_data>>

\* A variant of the poll loop that checks the URL of the listed post
\* without re-fetching it.
PollEntryAtHead == "head"

\* Lines 727-735: with a handle found, the poll loop starts by re-fetching.
PollEntry == "fetch"

\* Lines 709-725: after a fixed wait, one pass over the ten newest posts of
\* the account, taking the first whose title matches.  Every post of the
\* model carries the title; which of the live ones the listing shows is the
\* platform's choice.
Search ==
    /\ pc = "search"
    /\ searches' = searches + 1
    /\ called' = called \cup {"search"}
    /\ issued' = issued \cup {"search"}
    /\ \/ SafeExcept /\ UNCHANGED submission
       \/ /\ pc' = "done"
          /\ exit' = "not_found"
          /\ result' = ReturnNone
          /\ UNCHANGED submission
       \/ \E p \in LiveOrigins :
             /\ submission' = p
             /\ pc' = PollEntry
             /\ UNCHANGED outcome
    /\ UNCHANGED <<inputs, aside, depth, valid, thumbnail, direct_locals, remote,
                   attempt, media, head_status, fetches, failed, calls,
                   direct_args, fallback_args, submit_data>>

\* A variant of the attempt's error handler that submits again.
PollErrorResubmits == pc' = "fallback" /\ UNCHANGED <<attempt, outcome>>

\* Lines 756 and 761, restated after the pure functions above for the poll
\* loop: an error inside an attempt (lines 759-764) is retried while
\* attempts are left and re-raised on the last one, to the handler of 769.
PollError ==
    IF AttemptLeft(attempt)
      THEN pc' = "fetch" /\ attempt' = attempt + 1 /\ UNCHANGED outcome
      ELSE SafeExcept /\ UNCHANGED attempt

\* A variant of line 767 that hands the held handle back.
NeverReadyHandle(s) == [kind |-> "submission", post |-> s]

\* Line 767: what safe_submit_video returns when the loop runs out.
NeverReadyResult(s) == ReturnNone

\* Lines 755-757 and 766-767: wait and try again, or leave the loop.
PollWait ==
    IF AttemptLeft(attempt)
      THEN pc' = "fetch" /\ attempt' = attempt + 1 /\ UNCHANGED outcome
      ELSE /\ pc' = "done"
           /\ exit' = "never_ready"
           /\ result' = NeverReadyResult(submission)
           /\ UNCHANGED attempt

\* Lines 735-746: re-fetch the post and read its media and secure_media.
\* media and head_status are locals of one attempt of the loop.
Fetch ==
    /\ pc = "fetch"
    /\ fetches' = fetches + 1
    /\ called' = called \cup {"fetch"}
    /\ issued' = issued \cup {"fetch"}
    /\ \E r \in FetchResults :
          /\ calls' = IF IsGhost(r) THEN Count("ghost") ELSE calls
          /\ CASE r \in {"raise", "no_secure_media"} -> PollError
               [] IsGhost(r) -> pc' = "delete" /\ UNCHANGED <<attempt, outcome>>
               [] r = "no_fallback_url" -> PollWait
               [] OTHER -> pc' = "head" /\ UNCHANGED <<attempt, outcome>>
          /\ media' = IF pc' = "fetch" THEN "unset" ELSE r
    /\ UNCHANGED <<inputs, aside, depth, valid, thumbnail, direct_locals, remote,
                   submission, head_status, searches, failed, direct_args,
                   fallback_args, submit_data>>

\* A variant of the restart that resumes at the title search, without
\* submitting again.
RestartAtSearch == "search"

\* A variant of the restart that skips the validator.
RestartAfterValidation == "thumbnail"

\* Where line 743 re-enters safe_submit_video.
RestartPc == "validate"

\* A variant of the restart with a counter: one restart, then none.
RestartOnce(d) == d < 1

\* Is the recursive call of line 743 made at this depth?  The code threads
\* no counter through the recursion; the bound only caps the exploration.
MayRestart(d) == d < MaxRestarts

\* May this delete call fail?  (Only the bound says no.)
DeleteMayFail == calls.delete - calls.delete_ok < MaxDeleteFailures

\* The platform after a delete call that succeeded on post s.
PostDeleted(s) ==
    IF s = "pre"
      THEN live_pre' = FALSE /\ UNCHANGED live_new
      ELSE live_new' = live_new - 1 /\ UNCHANGED live_pre

\* Lines 740-743 when the delete call returns: what a fresh call of
\* safe_submit_video returns is returned, so the activation starts over.
GhostRestart ==
    /\ pc = "delete"
    /\ MayRestart(depth)
    /\ calls' = [calls EXCEPT !.delete = @ + 1, !.delete_ok = @ + 1]
    /\ PostDeleted(submission)
    /\ depth' = depth + 1
    /\ pc' = RestartPc
    /\ valid' = "unchecked"
    /\ thumbnail' = "unset"
    /\ post_url' = "unset"
    /\ submission' = None /\ attempt' = 0 /\ media' = "unset"
    /\ head_status' = 0 /\ fetches' = 0 /\ searches' = 0
    /\ called' = {} /\ issued' = {} /\ failed' = {}
    /\ direct_args' = <<>> /\ fallback_args' = <<>> /\ submit_data' = <<>>
    /\ UNCHANGED <<inputs, aside, token, video_lease, video_url, thumbnail_lease,
                   video_poster_url, outcome>>

\* Line 740 when the delete call raises: an error of the attempt (line 759).
DeleteFailed ==
    /\ pc = "delete"
    /\ DeleteMayFail
    /\ calls' = Count("delete")
    /\ PollError
    /\ media' = IF pc' = "fetch" THEN "unset" ELSE media
    /\ called' = called \cup {"delete"}
    /\ failed' = failed \cup {"delete"}
    /\ UNCHANGED <<inputs, aside, depth, valid, thumbnail, direct_locals, remote,
                   submission, head_status, fetches, searches, issued,
                   direct_args, fallback_args, submit_data>>

\* What safe_submit_video returns at line 751.
ReadyResult(s) == [kind |-> "submission", post |-> s]

\* Lines 748-753: the existence check of the fallback playback URL.
HeadCheck ==
    /\ pc = "head"
    /\ called' = called \cup {"head"}
    /\ issued' = issued \cup {"head"}
    /\ \E raises \in BOOLEAN, status \in HeadStatuses :
          /\ IF raises
               THEN PollError
               ELSE IF HeadOk(status)
                      THEN /\ pc' = "done"
                           /\ exit' = "ready"
                           /\ result' = ReadyResult(submission)
                           /\ UNCHANGED attempt
                      ELSE PollWait
          /\ head_status' = IF pc' = "fetch" \/ raises THEN 0 ELSE status
          /\ media' = IF pc' = "fetch" THEN "unset" ELSE media
    /\ UNCHANGED <<inputs, aside, depth, valid, thumbnail, direct_locals, remote,
                   submission, fetches, searches, failed, calls, direct_args,
                   fallback_args, submit_data>>

\* ---------------------------------------------------- upload_to_reddit

\* Lines 941-943: the handler logs and re-raises.
UploadRaise ==
    /\ pc' = "done"
    /\ exit' = "raise"
    /\ result' = Raised

\* Lines 871-873.
Download ==
    /\ pc = "download"
    /\ \E ok \in BOOLEAN :
          IF ok THEN pc' = "convert" /\ UNCHANGED outcome ELSE UploadRaise
    /\ UNCHANGED <<inputs, aside, depth, valid, thumbnail, direct_locals, remote,
                   poll_locals, history>>

\* Lines 876-878: the constraint-trim policy, then the abort on None.  The
\* artifact it hands back goes on unexamined.
Convert ==
    /\ pc = "convert"
    /\ \E p \in Probes, encoded \in BOOLEAN, o \in TempFileOutcomes :
          /\ processed_video' = IF o = "write_failed"
                                   THEN None
                                   ELSE validate_and_convert_video(p, encoded)
          /\ AfterTempFile(TrimInput, o)
          /\ failed' = IF o = "write_failed" \/ TrimFailed(p, encoded)
                          THEN failed \cup {"convert"} ELSE failed
          /\ IF Truthy(processed_video')
                THEN pc' = "u_thumbnail" /\ UNCHANGED outcome
                ELSE UploadRaise
    /\ UNCHANGED <<inputs, tooling, depth, valid, thumbnail, direct_locals,
                   remote, poll_locals, called, issued, calls, direct_args,
                   fallback_args, submit_data>>

\* A variant of upload_to_reddit that goes on without a thumbnail.
ProceedsWithoutThumbnail(r) == FALSE

\* Lines 882-883: `if not thumbnail_data: raise`.
AbortsWithoutThumbnail(r) == ~Truthy(r)

\* Lines 881-883: here a missing thumbnail aborts the upload.
UploadThumbnailStep ==
    /\ pc = "u_thumbnail"
    /\ \E r \in {None, "BytesIO"}, o \in TempFileOutcomes :
          /\ thumbnail' = generate_thumbnail(r, o)
          /\ AfterTempFile(ThumbnailInput, o)
          /\ IF AbortsWithoutThumbnail(thumbnail')
                THEN UploadRaise
                ELSE pc' = "tempfiles" /\ UNCHANGED outcome
    /\ UNCHANGED <<inputs, tooling, processed_video, depth, valid, direct_locals,
                   remote, poll_locals, history>>

\* The files mkstemp has made when lines 886-897 end: none when the first
\* mkstemp raises, temp_video alone when an error comes before temp_thumbnail
\* is assigned, else both.
CreatedFiles == {{}, {"temp_video"}, UploadFiles}

\* Lines 886-897: the two temporary files are created and written.  An
\* error at any of these lines goes through the handler of line 941 and the
\* finally of line 945.
TempFiles ==
    /\ pc = "tempfiles"
    /\ \E created \in CreatedFiles, ok \in BOOLEAN :
          /\ ok => created = UploadFiles
          /\ IF ok
                THEN /\ pc' = "u_submit"
                     /\ temp_files' = temp_files \cup created
                     /\ UNCHANGED <<outcome, unlink_failed>>
                ELSE /\ UploadRaise
                     /\ UploadCleanup(temp_files \cup created)
    /\ UNCHANGED <<inputs, tooling, processed_video, depth, valid, thumbnail,
                   direct_locals, remote, poll_locals, history>>

\* The arguments of subreddit.submit_video at lines 900-903.
UploadSubmitArgs == <<title, TempVideo, TempThumbnail>>

\* Lines 900-914: the submit call and its return value; a falsy value sends
\* the caller to find_submission.
UploadSubmit ==
    /\ pc = "u_submit"
    /\ calls' = Count("fallback")
    /\ fallback_args' = UploadSubmitArgs
    /\ called' = called \cup {"fallback"}
    /\ issued' = issued \cup {"fallback"}
    /\ \E r \in {"raise", "raise_created", "none", "none_created", "handle"} :
          /\ IF r \in {"raise_created", "none_created", "handle"}
                THEN PostCreated ELSE UNCHANGED remote
          /\ CASE r \in {"raise", "raise_created"} ->
                     UploadRaise /\ UNCHANGED submission
               [] r = "handle" ->
                     /\ submission' = "new"
                     /\ pc' = "u_fetch"
                     /\ UNCHANGED outcome
               [] OTHER ->
                     pc' = "find" /\ UNCHANGED <<outcome, submission>>
    /\ UploadFinally
    /\ UNCHANGED <<inputs, tooling, processed_video, depth, valid, thumbnail,
                   direct_locals, attempt, media, head_status, fetches,
                   searches, failed, direct_args, submit_data>>

\* A variant of find_submission that gives up one search early.
SearchLeftShort(n) == n < find_max_retries - 1

\* Line 839: is another search left in find_submission's loop?
SearchLeft(n) == n < find_max_retries

\* find_submission (lines 837-851), one search per step: the first post
\* with the title ends it; a search without a match, or one that raises,
\* uses up an attempt.  Lines 915-916 raise when it returns None.
FindSubmission ==
    /\ pc = "find"
    /\ searches' = searches + 1
    /\ called' = called \cup {"search"}
    /\ issued' = issued \cup {"search"}
    /\ \/ \E p \in LiveOrigins :
             /\ submission' = p
             /\ pc' = "u_fetch"
             /\ UNCHANGED outcome
       \/ /\ IF SearchLeft(searches + 1)
                THEN pc' = "find" /\ UNCHANGED outcome
                ELSE /\ pc' = "done"
                     /\ exit' = "not_found"
                     /\ result' = Raised
          /\ UNCHANGED submission
    /\ UploadFinally
    /\ UNCHANGED <<inputs, tooling, processed_video, depth, valid, thumbnail,
                   direct_locals, remote, attempt, media, head_status, fetches,
                   failed, calls, direct_args, fallback_args, submit_data>>

\* Line 928: hasattr(submission, 'media') and submission.media and
\* 'reddit_video' in submission.media.
UploadMediaReady(fetched) ==
    fetched \in {"no_secure_media", "no_fallback_url", "fallback_url"}

\* A variant of the loop with one attempt more.
UploadAttemptLeftOneMore(a) == a < max_retries + 1

\* Line 922: is another attempt left in the loop?
UploadAttemptLeft(a) == a < max_retries

\* Lines 929 and 939: the permalink of the held post.
Permalink(s) == [kind |-> "permalink", post |-> s]

\* Lines 922-936: one attempt of the poll loop.  The handle of line 925 is
\* lazy: the request goes out when line 928 reads its media, and an error
\* of that request leaves the handle without data.  When the loop runs out
\* line 939 returns the permalink all the same, which a handle holding data
\* answers by itself.
UploadFetch ==
    /\ pc = "u_fetch"
    /\ fetches' = fetches + 1
    /\ called' = called \cup {"fetch"}
    /\ issued' = issued \cup {"fetch"}
    /\ \E r \in FetchResults :
          /\ IF UploadMediaReady(r)
                THEN /\ pc' = "done"
                     /\ exit' = "ready"
                     /\ result' = Permalink(submission)
                     /\ UNCHANGED attempt
                ELSE /\ attempt' = attempt + 1
                     /\ IF UploadAttemptLeft(attempt + 1)
                           THEN pc' = "u_fetch" /\ UNCHANGED outcome
                           ELSE IF r = "raise"
                                  THEN pc' = "u_permalink" /\ UNCHANGED outcome
                                  ELSE /\ pc' = "done"
                                       /\ exit' = "timeout"
                                       /\ result' = Permalink(submission)
          /\ media' = IF pc' = "u_fetch" THEN "unset" ELSE r
    /\ UploadFinally
    /\ UNCHANGED <<inputs, tooling, processed_video, depth, valid, thumbnail,
                   direct_locals, remote, submission, head_status, searches,
                   failed, calls, direct_args, fallback_args, submit_data>>

\* Line 939 on a handle without data: reading the permalink sends one more
\* request for the post, outside the loop; its error reaches line 941.
UploadPermalink ==
    /\ pc = "u_permalink"
    /\ called' = called \cup {"permalink"}
    /\ issued' = issued \cup {"permalink"}
    /\ \E ok \in BOOLEAN :
          IF ok
            THEN /\ pc' = "done"
                 /\ exit' = "timeout"
                 /\ result' = Permalink(submission)
            ELSE UploadRaise
    /\ UploadFinally
    /\ UNCHANGED <<inputs, tooling, processed_video, depth, valid, thumbnail,
                   direct_locals, remote, poll_locals, failed, calls,
                   direct_args, fallback_args, submit_data>>

\* ------------------------------------------------------- specification

Next ==
    \/ Validate \/ Thumbnail \/ DirectCall
    \/ GetToken \/ GetVideoLease \/ UploadVideo
    \/ GetThumbnailLease \/ UploadThumbnail \/ SubmitPost \/ DirectReturn
    \/ Fallback \/ Search \/ Fetch \/ GhostRestart \/ DeleteFailed \/ HeadCheck
    \/ Download \/ Convert \/ UploadThumbnailStep \/ TempFiles
    \/ UploadSubmit \/ FindSubmission \/ UploadFetch \/ UploadPermalink

Spec == Init /\ [][Next]_vars

\* ------------------------------------- the media functions on their own

\* The variables of the submission pipeline.
pipeline ==
    <<inputs, pc, depth, valid, thumbnail, direct_locals, remote, poll_locals,
      outcome, history, processed_video>>

\* No entry point of the pipeline is running.
PipelineIdle ==
    /\ fn = "none" /\ title = "" /\ video_path = "" /\ pc = "idle"
    /\ depth = 0 /\ valid = "unchecked" /\ thumbnail = "unset"
    /\ token = "unset" /\ video_lease = "unset" /\ video_url = "unset"
    /\ thumbnail_lease = "unset" /\ video_poster_url = "unset"
    /\ post_url = "unset"
    /\ live_pre = FALSE /\ live_new = 0
    /\ submission = None /\ attempt = 0 /\ media = "unset" /\ head_status = 0
    /\ fetches = 0 /\ searches = 0
    /\ exit = "running" /\ result = NoResult
    /\ called = {} /\ issued = {} /\ failed = {}
    /\ calls = ZeroCalls
    /\ direct_args = <<>> /\ fallback_args = <<>> /\ submit_data = <<>>
    /\ processed_video = "unset"

\* One call of one media function, on a file ffprobe answers for as chosen.
ToolInit ==
    /\ tool \in ToolNames
    /\ probe_output \in Probes
    /\ tool_pc = "call"
    /\ tool_ret = "unset" /\ tool_done = {} /\ encoder_args = NoArgs
    /\ ConvertIdle
    /\ PipelineIdle
    /\ StorageIdle
    /\ CallerIdle

\* The function returns v.
ToolReturn(v) == tool_ret' = v /\ tool_pc' = "returned"

\* validate_video (lines 124-162), start to return.
ValidateVideo ==
    /\ tool = "validate_video" /\ tool_pc = "call"
    /\ ToolReturn(BoolRet(validate_video(probe_output)))
    /\ tool_done' = IF probe_output.tool = "missing" THEN {} ELSE {"probe"}
    /\ UNCHANGED <<pipeline, tool, probe_output, encoder_args, convert_locals,
                   storage>>

\* is_valid_mp4 (lines 164-203), start to return.
IsValidMp4 ==
    /\ tool = "is_valid_mp4" /\ tool_pc = "call"
    /\ ToolReturn(BoolRet(is_valid_mp4(probe_output)))
    /\ tool_done' = IF probe_output.tool = "missing" THEN {} ELSE {"probe"}
    /\ UNCHANGED <<pipeline, tool, probe_output, encoder_args, convert_locals,
                   storage>>

\* The stream ffprobe lists first (line 219 reads streams[0]).
FirstStreams(p) == IF p.streams = {} THEN {"none"} ELSE p.streams

\* One entry of the "streams" list of the dimension probe (lines 212-218):
\* only a video stream carries a width and a height.
Stream(kind, d) ==
    IF kind = "video"
      THEN [kind |-> "video", width |-> d[1], height |-> d[2]]
      ELSE [kind |-> kind]

\* The parsed output of the dimension probe for a file whose streams are
\* those of p, the stream `first` listed first.
StreamList(p, first, d) ==
    IF first = "none"
      THEN <<>>
      ELSE <<Stream(first, d)>> \o
           (IF p.streams \ {first} = {}
              THEN <<>>
              ELSE <<Stream(CHOOSE k \in p.streams \ {first} : TRUE, d)>>)

\* Lines 219-220 read streams[0]['width'] and streams[0]['height'].
HasDimensions(i) ==
    /\ i.parsed
    /\ Len(i.streams) > 0
    /\ "width" \in DOMAIN i.streams[1]

\* Lines 223-226: the target resolution of the -vf option.
scale_target(w, h) ==
    IF w > h THEN "1280:720" ELSE "720:1280"

\* convert_video, lines 207-226: ffmpeg must be there, and the width and
\* height of the first stream must be readable.
ConvertVideoProbe ==
    /\ tool = "convert_video" /\ tool_pc = "call"
    /\ \E ffmpeg \in BOOLEAN, first \in FirstStreams(probe_output),
          d \in Dimensions :
          IF ~ffmpeg
            THEN /\ ToolReturn(ConvertFallback)
                 /\ UNCHANGED <<tool_done, convert_locals>>
            ELSE /\ tool_done' = tool_done \cup {"dimensions"}
                 /\ info' = IF probe_output.tool = "ok"
                               THEN [parsed |-> TRUE,
                                     streams |-> StreamList(probe_output, first, d)]
                               ELSE NoInfo
                 /\ IF HasDimensions(info')
                      THEN /\ width' = info'.streams[1].width
                           /\ height' = info'.streams[1].height
                           /\ scale_filter' = scale_target(width', height')
                           /\ tool_pc' = "encode" /\ UNCHANGED tool_ret
                      ELSE /\ ToolReturn(ConvertFallback)
                           /\ UNCHANGED <<width, height, scale_filter>>
    /\ UNCHANGED <<pipeline, tool, probe_output, encoder_args, storage>>

\* convert_video, lines 229-245: the encoder runs with check=True.
ConvertVideoEncode ==
    /\ tool = "convert_video" /\ tool_pc = "encode"
    /\ \E ok \in BOOLEAN :
          IF ok
            THEN /\ tool_done' = tool_done \cup {"encode", "encoded"}
                 /\ tool_pc' = "revalidate" /\ UNCHANGED tool_ret
            ELSE /\ tool_done' = tool_done \cup {"encode"}
                 /\ ToolReturn(ConvertFallback)
    /\ UNCHANGED <<pipeline, tool, probe_output, encoder_args, convert_locals,
                   storage>>

\* convert_video, lines 247-248: the converted file is validated.
ConvertVideoRevalidate ==
    /\ tool = "convert_video" /\ tool_pc = "revalidate"
    /\ \E out \in Probes :
          /\ tool_done' = tool_done \cup {"revalidate"} \cup
                             (IF is_valid_mp4(out) THEN {"valid"} ELSE {})
          /\ IF RevalidationPasses(out)
                THEN tool_pc' = "log" /\ UNCHANGED tool_ret
                ELSE ToolReturn(ConvertFallback)
    /\ UNCHANGED <<pipeline, tool, probe_output, encoder_args, convert_locals,
                   storage>>

\* convert_video, lines 251-261: the details are probed and logged (an
\* error here is one more error of line 263), then the output is returned.
ConvertVideoLog ==
    /\ tool = "convert_video" /\ tool_pc = "log"
    /\ tool_done' = tool_done \cup {"log"}
    /\ \E ok \in BOOLEAN :
          ToolReturn(IF ok THEN "output_path" ELSE ConvertFallback)
    /\ UNCHANGED <<pipeline, tool, probe_output, encoder_args, convert_locals,
                   storage>>

\* Lines 661-666: the finally of generate_thumbnail and of
\* validate_and_convert_video unlinks the temporary copy f; an error of the
\* unlink is logged and dropped.
Unlink(f) ==
    \E removed \in BOOLEAN :
        /\ temp_files' = IF removed THEN temp_files \ {f} ELSE temp_files \cup {f}
        /\ unlink_failed' = IF removed THEN unlink_failed
                                        ELSE unlink_failed \cup {f}

\* validate_and_convert_video, lines 586-622 and 657-666: the temporary
\* copy is written, then probe and decide.  An error of the write reaches
\* the handler of line 668 with the file made and no finally entered.
TrimProbe ==
    /\ tool = "validate_and_convert_video" /\ tool_pc = "call"
    /\ \E written \in BOOLEAN :
          IF ~written
            THEN /\ ToolReturn(None)
                 /\ temp_files' = temp_files \cup {TrimInput}
                 /\ UNCHANGED <<tool_done, encoder_args, unlink_failed>>
            ELSE /\ tool_done' = tool_done \cup {"probe"}
                 /\ IF ProbeUsable(probe_output) /\ BitrateComputable(probe_output)
                         /\ needs_conversion(probe_output)
                      THEN /\ encoder_args' = conversion_params(probe_output)
                           /\ tool_pc' = "trim_encode"
                           /\ temp_files' = temp_files \cup {TrimInput}
                           /\ UNCHANGED <<tool_ret, unlink_failed>>
                      ELSE /\ ToolReturn(validate_and_convert_video(probe_output, FALSE))
                           /\ Unlink(TrimInput)
                           /\ UNCHANGED encoder_args
    /\ UNCHANGED <<pipeline, tool, probe_output, convert_locals>>

\* validate_and_convert_video, lines 623-655 and 661-666: encode, return
\* the output, unlink the copy.
TrimEncode ==
    /\ tool = "validate_and_convert_video" /\ tool_pc = "trim_encode"
    /\ \E encoded \in BOOLEAN :
          /\ tool_done' = tool_done \cup
                             (IF encoded THEN {"encode", "encoded"} ELSE {"encode"})
          /\ ToolReturn(validate_and_convert_video(probe_output, encoded))
    /\ Unlink(TrimInput)
    /\ UNCHANGED <<pipeline, tool, probe_output, encoder_args, convert_locals>>

\* generate_thumbnail (lines 531-580), start to return.
GenerateThumbnail ==
    /\ tool = "generate_thumbnail" /\ tool_pc = "call"
    /\ \E frame \in {None, "BytesIO"}, o \in TempFileOutcomes :
          /\ ToolReturn(generate_thumbnail(frame, o))
          /\ AfterTempFile(ThumbnailInput, o)
          /\ tool_done' = IF o = "write_failed" THEN {} ELSE {"ffmpeg"}
    /\ UNCHANGED <<pipeline, tool, probe_output, encoder_args, convert_locals>>

ToolNext ==
    \/ ValidateVideo \/ IsValidMp4
    \/ ConvertVideoProbe \/ ConvertVideoEncode \/ ConvertVideoRevalidate
    \/ ConvertVideoLog
    \/ TrimProbe \/ TrimEncode
    \/ GenerateThumbnail

ToolSpec == ToolInit /\ [][ToolNext]_vars

\* The pipeline and the media functions in one specification: a run is a
\* run of either.
AllSpec == (Init \/ ToolInit) /\ [][Next \/ ToolNext]_vars

\* ------------------------------------------------ crosspost_to_subreddits

\* The list of lines 57-66, and how many of its entries a pass is given.
TARGET_SUBREDDITS ==
    <<"motivation", "GetMotivated", "selflove", "Quotes_Hub",
      "inspirationalquotes", "inspiration", "Adulting", "MotivationalThoughts">>
MaxTargets == 3
TargetLists == {SubSeq(TARGET_SUBREDDITS, 1, n) : n \in 0..MaxTargets}

\* Everything but the frames of main and of crosspost_to_subreddits.
callees ==
    <<arguments, pc, depth, valid, thumbnail, direct_locals, remote,
      poll_locals, outcome, history, processed_video, tooling, storage>>

\* Lines 1023-1045: what can raise before the loop.  A URL without
\* /comments/ is looked up among the account's posts (lines 1028-1034), and
\* without a custom title the post's own title is fetched (line 1042).
SetupMayFail(original, custom) ==
    original = "url_without_id" \/ ~Truthy(custom)

\* Lines 1091-1097: the tally returned when the pass fails before the loop.
FailedTally(subs) ==
    [successful |-> <<>>,
     failed |-> [i \in 1..Len(subs) |-> <<subs[i], "error">>],
     total_attempted |-> Len(subs)]

\* Lines 1019-1047 and 1091-1097.
CrosspostSetup ==
    /\ cp_pc = "setup"
    /\ \E ok \in BOOLEAN :
          /\ ~ok => SetupMayFail(original_submission, custom_title)
          /\ IF ok
                THEN /\ cp_pc' = "loop"
                     /\ UNCHANGED <<crosspost_result, logged>>
                ELSE /\ cp_pc' = "returned"
                     /\ crosspost_result' = FailedTally(target_subs)
                     /\ logged' = logged \cup {"crosspost_process"}
    /\ UNCHANGED <<callees, driver, main_pc, main_exit, initial_report, file,
                   url, deleted, sent, original_submission, target_subs,
                   custom_title, index, successful_crossposts,
                   failed_crossposts, attempts>>

\* A variant of the loop that gives up at the first target that fails.
StopAtFailure(i, ok, subs) == IF ok THEN i + 1 ELSE Len(subs) + 1

\* Lines 1049 and 1069: the loop goes on to the next target, after a
\* success and after a failure alike.
NextTarget(i, ok, subs) == i + 1

\* Lines 1049-1069: one target of the loop.
CrosspostAttempt ==
    /\ cp_pc = "loop" /\ index <= Len(target_subs)
    /\ \E ok \in BOOLEAN :
          /\ attempts' = Append(attempts, ok)
          /\ IF ok
                THEN /\ successful_crossposts' =
                            Append(successful_crossposts, target_subs[index])
                     /\ UNCHANGED <<failed_crossposts, logged>>
                ELSE /\ failed_crossposts' =
                            Append(failed_crossposts, <<target_subs[index], "error">>)
                     /\ logged' = logged \cup {"crosspost"}
                     /\ UNCHANGED successful_crossposts
          /\ index' = NextTarget(index, ok, target_subs)
    /\ UNCHANGED <<callees, driver, main_pc, main_exit, initial_report, file,
                   url, deleted, sent, cp_pc, original_submission, target_subs,
                   custom_title, crosspost_result>>

\* Lines 1071-1089: the summary is logged and the tally returned.
CrosspostReturn ==
    /\ cp_pc = "loop" /\ index > Len(target_subs)
    /\ cp_pc' = "returned"
    /\ crosspost_result' =
          [successful |-> successful_crossposts,
           failed |-> failed_crossposts,
           total_attempted |-> Len(target_subs)]
    /\ UNCHANGED <<callees, driver, main_frame, original_submission,
                   target_subs, custom_title, index, successful_crossposts,
                   failed_crossposts, attempts>>

\* ------------------------------------------------------------------ main

\* What requests.post and raise_for_status give send_telegram_notification.
Deliveries == {"ok", "failed"}

\* A variant of send_telegram_notification that lets the error out.
send_telegram_notification_propagating(response) ==
    IF response = "ok" THEN None ELSE "raise"

\* send_telegram_notification (lines 781-798): whatever the request gives,
\* the function returns None; an error is logged at line 798.
send_telegram_notification(response) == None

\* One call of send_telegram_notification, with the other error records of
\* the step.
Notify(message, response, errors) ==
    /\ sent' = Append(sent, [message |-> message, delivered |-> response = "ok"])
    /\ logged' = logged \cup errors \cup
                    (IF response = "ok" THEN {} ELSE {"telegram"})

\* A variant of the per-file handler that logs and goes on to the deletion.
InnerExceptGoesOn ==
    /\ main_pc' = "delete"
    /\ main_exit' = main_exit

\* Lines 1312-1314: the handler of the per-file try logs and returns.
InnerExcept ==
    /\ main_pc' = "done"
    /\ main_exit' = "process_failed"

\* Lines 1361-1364: the outer handler logs, notifies and re-raises.
OuterExcept ==
    /\ main_pc' = "done"
    /\ main_exit' = "raise"

\* What upload_to_reddit and upload_image_to_reddit end with (lines 929,
\* 939, 941-943 and 1001, 1003-1005): a permalink, or an error.
UploadOutcomes == {Raised} \cup {Permalink(o) : o \in Origins}

\* Lines 1227-1237: the initial report; get_dropbox_report gives None on an
\* error, send_dropbox_report drops every error.
MainInitialReport ==
    /\ main_pc = "start"
    /\ \E rep \in {None, "report"}, r \in Deliveries :
          /\ initial_report' = rep
          /\ IF rep = None
                THEN /\ r = "ok"
                     /\ logged' = logged \cup {"report"}
                     /\ UNCHANGED sent
                ELSE Notify("initial_report", r, {})
    /\ main_pc' = "list"
    /\ UNCHANGED <<callees, driver, crosspost_frame, main_exit, file, url,
                   deleted>>

\* Lines 1239-1247: the listing (empty on an error too) and the choice.
MainListFiles ==
    /\ main_pc = "list"
    /\ \E f \in {None, "video", "image"}, r \in Deliveries :
          IF f = None
            THEN /\ Notify("no_files", r, {})
                 /\ IF send_telegram_notification(r) = "raise"
                      THEN OuterExcept
                      ELSE main_pc' = "done" /\ main_exit' = "no_files"
                 /\ UNCHANGED file
            ELSE /\ r = "ok"
                 /\ file' = f
                 /\ main_pc' = "link"
                 /\ UNCHANGED <<main_exit, sent, logged>>
    /\ UNCHANGED <<callees, driver, crosspost_frame, initial_report, url,
                   deleted>>

\* Lines 1249-1252: get_dropbox_temporary_link returns the link or raises.
MainTemporaryLink ==
    /\ main_pc = "link"
    /\ \E ok \in BOOLEAN :
          IF ok
            THEN main_pc' = "upload" /\ UNCHANGED <<main_exit, logged>>
            ELSE InnerExcept /\ logged' = logged \cup {"link", "process"}
    /\ UNCHANGED <<callees, driver, crosspost_frame, initial_report, file, url,
                   deleted, sent>>

\* Lines 1254-1264 and 1312-1314: the upload call.  Its error is logged by
\* the handler, which returns: nothing is handed to Telegram.
MainUpload ==
    /\ main_pc = "upload"
    /\ \E u \in UploadOutcomes :
          IF u = Raised
            THEN /\ InnerExcept
                 /\ logged' = logged \cup {"upload", "process"}
                 /\ UNCHANGED url
            ELSE /\ url' = u
                 /\ main_pc' = "notify"
                 /\ UNCHANGED <<main_exit, logged>>
    /\ UNCHANGED <<callees, driver, crosspost_frame, initial_report, file,
                   deleted, sent>>

\* Lines 1266-1268.
MainNotifyUploaded ==
    /\ main_pc = "notify"
    /\ \E r \in Deliveries :
          /\ Notify("uploaded", r, {})
          /\ IF send_telegram_notification(r) = "raise"
                THEN InnerExcept
                ELSE main_pc' = "crosspost" /\ UNCHANGED main_exit
    /\ UNCHANGED <<callees, driver, crosspost_frame, initial_report, file, url,
                   deleted>>

\* The titles generate_post_title can give (lines 1171-1186): cleaning the
\* name can leave nothing.
Titles == {"title A", ""}

\* Lines 1270-1286 and 1305-1307: the client is made and the pass called
\* with the permalink, the targets and the title; an error of the client is
\* logged and notified.
MainCrosspostCall ==
    /\ main_pc = "crosspost"
    /\ \E client \in BOOLEAN, t \in Titles, r \in Deliveries :
          IF client
            THEN /\ r = "ok"
                 /\ cp_pc' = "setup"
                 /\ original_submission' = "url_with_id"
                 /\ target_subs' = SubSeq(TARGET_SUBREDDITS, 1, MaxTargets)
                 /\ custom_title' = t
                 /\ main_pc' = "crossposting"
                 /\ UNCHANGED <<main_exit, sent, logged>>
            ELSE /\ t = "title A"
                 /\ Notify("crosspost_failed", r, {"crosspost_process"})
                 /\ IF send_telegram_notification(r) = "raise"
                      THEN InnerExcept
                      ELSE main_pc' = "delete" /\ UNCHANGED main_exit
                 /\ UNCHANGED <<cp_pc, original_submission, target_subs,
                                custom_title>>
    /\ UNCHANGED <<callees, driver, initial_report, file, url, deleted, index,
                   successful_crossposts, failed_crossposts, attempts,
                   crosspost_result>>

\* Lines 1288-1303: the summary of the tally, or the failure of all.
MainCrosspostSummary ==
    /\ main_pc = "crossposting" /\ cp_pc = "returned"
    /\ \E r \in Deliveries :
          /\ IF crosspost_result.successful # <<>>
                THEN Notify("crosspost_summary", r, {})
                ELSE Notify("crosspost_all_failed", r, {"crossposting"})
          /\ IF send_telegram_notification(r) = "raise"
                THEN InnerExcept
                ELSE main_pc' = "delete" /\ UNCHANGED main_exit
    /\ UNCHANGED <<callees, driver, crosspost_frame, initial_report, file, url,
                   deleted>>

\* Lines 1309-1315: the source file is deleted; an error is logged.
MainDelete ==
    /\ main_pc = "delete"
    /\ \E ok \in BOOLEAN :
          /\ deleted' = IF ok THEN "deleted" ELSE "failed"
          /\ logged' = IF ok THEN logged ELSE logged \cup {"delete"}
    /\ main_pc' = "final"
    /\ UNCHANGED <<callees, driver, crosspost_frame, main_exit, initial_report,
                   file, url, sent>>

\* Lines 1317-1328: the final report.
MainFinalReport ==
    /\ main_pc = "final"
    /\ \E rep \in {None, "report"}, r \in Deliveries :
          IF rep = None
            THEN /\ r = "ok"
                 /\ logged' = logged \cup {"report"}
                 /\ main_pc' = "completed"
                 /\ UNCHANGED sent
            ELSE /\ Notify("final_report", r, {})
                 /\ main_pc' = IF initial_report = "report"
                                 THEN "summary" ELSE "completed"
    /\ UNCHANGED <<callees, driver, crosspost_frame, main_exit, initial_report,
                   file, url, deleted>>

\* Lines 1330-1353: the processing summary.
MainSummary ==
    /\ main_pc = "summary"
    /\ \E r \in Deliveries :
          /\ Notify("summary", r, {})
          /\ IF send_telegram_notification(r) = "raise"
                THEN OuterExcept
                ELSE main_pc' = "completed" /\ UNCHANGED main_exit
    /\ UNCHANGED <<callees, driver, crosspost_frame, initial_report, file, url,
                   deleted>>

\* Lines 1355-1358.
MainCompleted ==
    /\ main_pc = "completed"
    /\ \E r \in Deliveries :
          /\ Notify("completed", r, {})
          /\ IF send_telegram_notification(r) = "raise"
                THEN OuterExcept
                ELSE main_pc' = "done" /\ main_exit' = "completed"
    /\ UNCHANGED <<callees, driver, crosspost_frame, initial_report, file, url,
                   deleted>>

\* main from its start, or crosspost_to_subreddits called on its own.
MainInit ==
    /\ driver \in {"main", "crosspost_to_subreddits"}
    /\ PipelineIdle /\ ToolsIdle /\ StorageIdle
    /\ main_exit = "running"
    /\ initial_report = "unset" /\ file = "unset" /\ url = NoResult
    /\ deleted = "unset" /\ sent = <<>> /\ logged = {}
    /\ index = 1
    /\ successful_crossposts = <<>> /\ failed_crossposts = <<>>
    /\ attempts = <<>> /\ crosspost_result = NoTally
    /\ IF driver = "main"
         THEN /\ main_pc = "start"
              /\ cp_pc = "idle" /\ original_submission = "unset"
              /\ target_subs = <<>> /\ custom_title = "unset"
         ELSE /\ main_pc = "idle"
              /\ cp_pc = "setup"
              /\ original_submission \in
                    {"url_with_id", "url_without_id", "object"}
              /\ target_subs \in TargetLists
              /\ custom_title \in {None} \cup Titles

MainNext ==
    \/ MainInitialReport \/ MainListFiles \/ MainTemporaryLink \/ MainUpload
    \/ MainNotifyUploaded \/ MainCrosspostCall \/ MainCrosspostSummary
    \/ MainDelete \/ MainFinalReport \/ MainSummary \/ MainCompleted
    \/ CrosspostSetup \/ CrosspostAttempt \/ CrosspostReturn

MainSpec == MainInit /\ [][MainNext]_vars

TypeOK ==
    /\ fn \in EntryPoints \cup {"none"}
    /\ depth \in 0..MaxRestarts
    /\ attempt \in 0..MAX_RETRIES
    /\ submission \in {None} \cup Origins
    /\ live_new \in 0..(2 * (MaxRestarts + 1))
    /\ fetches \in 0..MAX_RETRIES

\* ---------------------------------------------------------------- claims

\* C1, amended.  In safe_submit_video every ghost detection makes exactly
\* one delete call on the held post, and a restart of the whole pipeline
\* follows exactly when that delete call returned without error.  When the
\* only ghost detection of a run is followed by a delete call that succeeds
\* and the restarted pipeline's post reaches Ready, the run made exactly one
\* delete call and two calls of each submitter (one more than without the
\* ghost).
C1_GhostDeleteRestart ==
    fn = "safe_submit_video" =>
        /\ calls.ghost = calls.delete + (IF pc = "delete" THEN 1 ELSE 0)
        /\ depth = calls.delete_ok
        /\ (exit = "ready" /\ calls.ghost = 1 /\ calls.delete_ok = 1) =>
              (calls.delete = 1 /\ calls.fallback = 2 /\ calls.direct = 2)

\* A run with one ghost, one delete, one restart, ended Ready.
C1_OneGhostThenReady ==
    /\ fn = "safe_submit_video"
    /\ exit = "ready"
    /\ calls.ghost = 1
    /\ calls.delete_ok = 1

\* C1 as stated: when the run is over every ghost detection has had its one
\* delete call and its one restart, and a run that restarted once and ended
\* Ready made one delete call and two fallback calls.
C1_AsStated ==
    (fn = "safe_submit_video" /\ pc = "done") =>
        /\ calls.delete = calls.ghost
        /\ depth = calls.ghost
        /\ (exit = "ready" /\ depth = 1) =>
              (calls.delete = 1 /\ calls.fallback = 2)

C5_FallbackAfterDirectFailure ==
    /\ fn = "submit_video_direct" =>
          /\ pc = "done" => exit = "direct_return"
          /\ (pc = "done" /\ failed # {}) => result = ReturnNone
    /\ fn = "safe_submit_video" =>
          /\ calls.fallback = depth + (IF "fallback" \in called THEN 1 ELSE 0)
          /\ calls.fallback <= calls.direct
          /\ "fallback" \in called =>
                /\ ~DirectSucceeded(post_url)
                /\ fallback_args = direct_args
                /\ fallback_args[1] = title
                /\ fallback_args[2] = video_path
          /\ (pc \in {"fallback", "search", "fetch", "delete", "head", "done"}
                /\ failed \cap DirectSteps # {}) =>
                (post_url = None /\ (pc = "fallback" \/ "fallback" \in called))
          /\ exit = "direct" =>
                ("fallback" \notin called /\ failed \cap DirectSteps = {})

\* Scenario C: the submit request failed and the fallback has been called.
C5_FallbackAfterSubmitError ==
    /\ fn = "safe_submit_video"
    /\ "submit" \in failed
    /\ pc = "search"
    /\ fallback_args = <<title, video_path, thumbnail>>

\* C6 as stated: an upload is entered only with a lease its lease request
\* returned, the submit request carries the location references the uploads
\* returned, the first re-fetch comes after a submit call, and no step is
\* entered after a step that failed.
C6_AsStated ==
    /\ "video_upload" \in called =>
          ("video_lease" \in issued /\ "video_lease" \notin failed)
    /\ "thumbnail_upload" \in called =>
          ("thumbnail_lease" \in issued /\ "thumbnail_lease" \notin failed)
    /\ "submit" \in issued =>
          /\ "video_upload" \in issued
          /\ submit_data.video_url = "loc"
          /\ Truthy(thumbnail) => submit_data.video_poster_url = "loc"
    /\ "fetch" \in issued => ("submit" \in issued \/ "fallback" \in issued)
    /\ "token" \in failed => called \cap DirectSteps = {"token"}

C8_PollCeiling ==
    /\ fn = "safe_submit_video" =>
          /\ fetches <= MAX_RETRIES
          /\ fetches = attempt +
                (IF pc \in {"delete", "head", "done"} /\ fetches > 0 THEN 1 ELSE 0)
          /\ exit = "never_ready" =>
                (fetches = MAX_RETRIES /\ ~IsGhost(media) /\ head_status # 200)
    /\ fn = "upload_to_reddit" =>
          /\ fetches <= max_retries
          /\ fetches = attempt + (IF exit = "ready" THEN 1 ELSE 0)
          /\ exit = "timeout" =>
                (fetches = max_retries /\ ~UploadMediaReady(media))

\* The fifteenth attempt of safe_submit_video raised.
C8_LastAttemptRaised ==
    /\ fn = "safe_submit_video"
    /\ exit = "exception"
    /\ fetches = MAX_RETRIES
    /\ media = "raise"

C10_ValidatorGates ==
    fn = "safe_submit_video" =>
        /\ (called # {} \/ issued # {}) => valid = "pass"
        /\ pc # "validate" => valid # "unchecked"
        /\ valid = "reject" =>
              /\ pc = "done" /\ exit = "exception" /\ result = ReturnNone
              /\ called = {} /\ issued = {}
        /\ calls.validate = depth + (IF pc = "validate" THEN 0 ELSE 1)
        /\ calls.direct <= calls.validate
        /\ calls.fallback <= calls.validate

\* The validator rejected the artifact at the top of a restart.
C10_RejectedAfterRestart ==
    /\ fn = "safe_submit_video"
    /\ depth = 1
    /\ valid = "reject"

\* C11.  On parsed probe output is_valid_mp4 answers True exactly when
\* 0 < duration <= 900, size <= 1000000000 and a video stream is listed; a
\* duration of 900 and a size of 1000000000 are accepted.
C11_LightValidatorRules ==
    (/\ tool = "is_valid_mp4" /\ tool_pc = "returned"
     /\ probe_output.tool = "ok") =>
        (tool_ret = "True" <=>
            /\ 0 < probe_output.duration /\ probe_output.duration <= 900
            /\ probe_output.size <= 1000000000
            /\ "video" \in probe_output.streams)

\* is_valid_mp4 accepted an artifact at both boundaries.
C11_AcceptedAtBoundaries ==
    /\ tool = "is_valid_mp4" /\ tool_pc = "returned"
    /\ probe_output.tool = "ok"
    /\ probe_output.duration = 900 /\ probe_output.size = 1000000000
    /\ tool_ret = "True"

\* C12.  On parsed probe output validate_video answers False whenever no
\* audio stream is listed and whenever the duration is below 2; a duration
\* of exactly 2 with an audio stream is accepted.  is_valid_mp4 answers True
\* for an artifact without audio stream that meets its three rules.
C12_StrictValidatorRules ==
    /\ (/\ tool = "validate_video" /\ tool_pc = "returned"
        /\ probe_output.tool = "ok") =>
          /\ "audio" \notin probe_output.streams => tool_ret = "False"
          /\ probe_output.duration < 2 => tool_ret = "False"
          /\ (probe_output.duration = 2 /\ "audio" \in probe_output.streams)
                => tool_ret = "True"
    /\ (/\ tool = "is_valid_mp4" /\ tool_pc = "returned"
        /\ probe_output.tool = "ok"
        /\ probe_output.streams = {"video"}
        /\ 0 < probe_output.duration /\ probe_output.duration <= 900
        /\ probe_output.size <= 1000000000) => tool_ret = "True"

\* validate_video turned away an artifact of 30 s for want of audio.
C12_RejectedWithoutAudio ==
    /\ tool = "validate_video" /\ tool_pc = "returned"
    /\ probe_output.tool = "ok"
    /\ probe_output.duration = 30 /\ probe_output.streams = {"video"}
    /\ tool_ret = "False"

C14_ValidatorsNeverRaise ==
    (tool \in {"validate_video", "is_valid_mp4"} /\ tool_pc = "returned") =>
        /\ tool_ret \in {"True", "False"}
        /\ probe_output.tool = "missing" => tool_ret = "True"
        /\ probe_output.tool \in {"exit_nonzero", "malformed"}
              => tool_ret = "False"

\* is_valid_mp4 passed a file it could not probe, the tool being missing.
C14_PassWithoutTool ==
    /\ tool = "is_valid_mp4" /\ tool_pc = "returned"
    /\ probe_output.tool = "missing"
    /\ probe_output.duration = 1000
    /\ tool_ret = "True"

\* C15 as stated: what a lease call returned to submit_video_direct is a
\* usable lease, for the video and for the thumbnail alike.
C15_AsStated ==
    /\ video_lease \in {"unset", "lease"}
    /\ thumbnail_lease \in {"unset", "lease"}

\* C16 as stated: what upload_to_s3 returned to submit_video_direct is a
\* location reference, never an empty one.
C16_AsStated ==
    /\ video_url \in {"unset", "loc"}
    /\ video_poster_url \in {"unset", "loc"}

C18_TrimFailureAborts ==
    fn = "upload_to_reddit" =>
        /\ "convert" \in failed =>
              /\ pc = "done" /\ exit = "raise" /\ result = Raised
              /\ processed_video = None
              /\ thumbnail = "unset"
              /\ called = {} /\ issued = {}
              /\ calls.fallback = 0 /\ live_new = 0
              /\ searches = 0 /\ fetches = 0
        /\ processed_video = None => "convert" \in failed

\* upload_to_reddit raised because the policy failed.
C18_AbortedAtConvert ==
    /\ fn = "upload_to_reddit"
    /\ "convert" \in failed
    /\ exit = "raise"

C20_ResizeNeverRaises ==
    (tool = "convert_video" /\ tool_pc = "returned") =>
        /\ tool_ret \in {"input_path", "output_path"}
        /\ tool_ret = "output_path" =>
              {"dimensions", "encoded", "valid"} \subseteq tool_done
        /\ ~({"dimensions", "encoded", "valid"} \subseteq tool_done) =>
              tool_ret = "input_path"

\* The encode succeeded, the output failed validation, the input came back.
C20_InputAfterFailedRevalidation ==
    /\ tool = "convert_video" /\ tool_pc = "returned"
    /\ "encoded" \in tool_done
    /\ "revalidate" \in tool_done /\ "valid" \notin tool_done
    /\ tool_ret = "input_path"

\* The first video stream of the dimension probe's list.
FirstVideo(i) ==
    i.streams[CHOOSE n \in 1..Len(i.streams) :
                /\ i.streams[n].kind = "video"
                /\ \A m \in 1..(n - 1) : i.streams[m].kind # "video"]

\* C21 as stated: once convert_video has parsed the dimension probe of a
\* file that has a video stream, the -vf target is 1280x720 when the first
\* video stream is wider than high and 720x1280 otherwise, wherever that
\* stream stands in the list.
C21_AsStated ==
    (/\ tool = "convert_video" /\ tool_pc # "call"
     /\ info.parsed
     /\ \E n \in 1..Len(info.streams) : info.streams[n].kind = "video") =>
        scale_filter = scale_target(FirstVideo(info).width, FirstVideo(info).height)

C23_AsStated ==
    (/\ fn = "safe_submit_video" /\ pc = "done" /\ depth = 0
     /\ valid = "pass" /\ thumbnail = "BytesIO"
     /\ failed \cap {"token", "video_lease", "video_upload", "submit"} = {}
     /\ failed \cap issued = {}
     /\ exit # "exception") =>
        /\ exit = "ready"
        /\ calls.fallback = 0
        /\ fetches = 1

\* C24.  Exactly-once delivery is not guaranteed in safe_submit_video: the
\* direct submit request can create the post and still be taken for failed,
\* the fallback submitter then submits the same title and path whatever
\* posts are live, and nothing is deleted in between, so that one invocation
\* can hold two live posts of one artifact before any restart.
C24_DuplicatePossible ==
    fn = "safe_submit_video" =>
        /\ pc = "submit" =>
              ENABLED (/\ SubmitPost
                       /\ live_new' = live_new + 1
                       /\ ~DirectSucceeded(post_url'))
        /\ pc = "fallback" =>
              ENABLED (/\ Fallback
                       /\ live_new' = live_new + 1
                       /\ fallback_args' = <<title, video_path, thumbnail>>)
        /\ (depth = 0 /\ calls.delete = 0) =>
              live_new <= calls.direct + calls.fallback

\* One invocation, no restart and no delete so far, two live posts: the
\* direct submit failed after the post was created, the fallback made one
\* more.
C24_TwoLivePosts ==
    /\ fn = "safe_submit_video"
    /\ depth = 0 /\ calls.delete = 0
    /\ "submit" \in failed
    /\ calls.fallback = 1
    /\ live_new = 2

\* C25 as stated, a removal that was tried and raised allowed for: when
\* generate_thumbnail, validate_and_convert_video or upload_to_reddit has
\* returned or raised, no temporary file is left whose removal was not tried.
C25_AsStated ==
    /\ (tool \in {"generate_thumbnail", "validate_and_convert_video"}
          /\ tool_pc = "returned") => temp_files \subseteq unlink_failed
    /\ (fn = "upload_to_reddit" /\ pc = "done") =>
          temp_files \subseteq unlink_failed

\* C26 as stated: when the upload call of main has failed and main has
\* ended, a notification other than the initial report has been handed to
\* Telegram.
C26_AsStated ==
    (driver = "main" /\ main_pc = "done" /\ "upload" \in logged) =>
        \E i \in 1..Len(sent) : sent[i].message # "initial_report"

\* C27.  A failure of send_telegram_notification is logged and never
\* reaches main: main never ends by an error, a failed delivery is on record
\* exactly when the error log has it, and once the upload has returned a
\* URL, main ends only after the crosspost pass was called (or the client
\* for it could not be made) and the deletion of the source file was tried,
\* whatever became of the notifications in between.
C27_NotificationsFireAndForget ==
    driver = "main" =>
        /\ main_exit \notin {"raise"}
        /\ (\E i \in 1..Len(sent) : ~sent[i].delivered) <=> "telegram" \in logged
        /\ (main_pc \in {"delete", "final", "summary", "completed", "done"}
              /\ url.kind = "permalink") =>
                 (cp_pc = "returned" \/ "crosspost_process" \in logged)
        /\ (main_pc = "done" /\ url.kind = "permalink") =>
              /\ main_exit = "completed"
              /\ deleted \in {"deleted", "failed"}

\* main has ended after an upload whose notification failed: the pass has
\* crossposted and the source file is deleted.
C27_DeletedAfterFailedNotification ==
    /\ driver = "main" /\ main_pc = "done"
    /\ \E i \in 1..Len(sent) :
          sent[i].message = "uploaded" /\ ~sent[i].delivered
    /\ crosspost_result.successful # <<>>
    /\ deleted = "deleted"

\* The targets attempted so far whose attempt ended as ok says, in order.
Attempted(ok) ==
    LET Ended(i) == attempts[i] = ok
        at == SelectSeq([i \in 1..Len(attempts) |-> i], Ended)
    IN  [k \in 1..Len(at) |-> target_subs[at[k]]]

\* C28.  During a pass of crosspost_to_subreddits every target before the
\* one the loop is at has been attempted, whatever the earlier attempts
\* gave; the successful list is the targets whose attempt succeeded and the
\* failed list those whose attempt failed, each in the order of the
\* attempts, so entries are only ever appended.  On return every target is
\* in exactly one of the two lists of the tally, whose lengths sum to
\* total_attempted, the number of targets, also when the pass failed before
\* its first attempt.
C28_TallyComplete ==
    /\ cp_pc \in {"setup", "loop"} => index = Len(attempts) + 1
    /\ successful_crossposts = Attempted(TRUE)
    /\ failed_crossposts =
          [k \in 1..Len(Attempted(FALSE)) |-> <<Attempted(FALSE)[k], "error">>]
    /\ cp_pc = "returned" =>
          LET tally == crosspost_result
          IN  /\ tally.total_attempted = Len(target_subs)
              /\ Len(tally.successful) + Len(tally.failed) = tally.total_attempted
              /\ \A i \in 1..Len(target_subs) :
                    (\E k \in 1..Len(tally.successful) :
                        tally.successful[k] = target_subs[i])
                    # (\E k \in 1..Len(tally.failed) :
                          tally.failed[k][1] = target_subs[i])
              /\ attempts # <<>> =>
                    /\ tally.successful = successful_crossposts
                    /\ tally.failed = failed_crossposts

\* A pass has returned whose first target failed and whose second succeeded.
C28_SuccessAfterFailure ==
    /\ cp_pc = "returned"
    /\ Len(attempts) = Len(target_subs)
    /\ Len(attempts) >= 2
    /\ ~attempts[1] /\ attempts[2]

\* C29.  In safe_submit_video a restart is made only by a delete call that
\* returned: the activations, and with them the calls of either submitter,
\* never outnumber the successful delete calls by more than one.  A delete
\* call that raises changes neither the held post nor any submitter's call
\* count nor the depth; it leads to the next fetch of the same post while an
\* attempt is left and ends the run with None on the last attempt.
C29_RestartOnlyAfterDelete ==
    fn = "safe_submit_video" =>
        /\ depth = calls.delete_ok
        /\ calls.fallback <= calls.delete_ok + 1
        /\ calls.direct <= calls.delete_ok + 1
        /\ pc = "delete" =>
              /\ ~ENABLED (/\ DeleteFailed
                           /\ \/ submission' # submission
                              \/ calls'.fallback # calls.fallback
                              \/ calls'.direct # calls.direct
                              \/ calls'.delete_ok # calls.delete_ok
                              \/ depth' # depth
                              \/ live_new' # live_new)
              /\ ~ENABLED (/\ DeleteFailed
                           /\ ~(IF AttemptLeft(attempt)
                                   THEN pc' = "fetch" /\ attempt' = attempt + 1
                                   ELSE pc' = "done" /\ result' = ReturnNone))
              /\ ~ENABLED (/\ GhostRestart
                           /\ calls'.delete_ok # calls.delete_ok + 1)

\* After a delete call that raised, the same post has been fetched again and
\* found a ghost again, with no submission made in between.
C29_RefetchedAfterFailedDelete ==
    /\ fn = "safe_submit_video"
    /\ pc = "delete"
    /\ "delete" \in failed
    /\ calls.delete = 1 /\ calls.delete_ok = 0
    /\ calls.ghost = 2
    /\ calls.fallback = 1
    /\ fetches >= 2

\* C30, amended.  safe_submit_video calls delete only on a post whose latest
\* fetch showed no media payload or a media payload without a reddit_video
\* object, never on one whose latest fetch carried a reddit_video object;
\* upload_to_reddit and submit_video_direct never delete a post.
C30_DeleteOnlyWithoutVideoObject ==
    /\ (pc = "delete" \/ ENABLED GhostRestart \/ ENABLED DeleteFailed) =>
          /\ fn = "safe_submit_video"
          /\ pc = "delete"
          /\ submission # None
          /\ fetches >= 1
          /\ media \in {"no_media", "no_reddit_video"}
    /\ calls.delete <= calls.ghost
    /\ fn # "safe_submit_video" => (calls.delete = 0 /\ calls.ghost = 0)

\* A delete call is due on a post whose latest fetch carried a media payload
\* that has no reddit_video object.
C30_DeleteWithOtherMedia ==
    /\ fn = "safe_submit_video"
    /\ pc = "delete"
    /\ media = "no_reddit_video"

\* C30 as stated: safe_submit_video calls delete only on a post whose latest
\* fetch showed no media payload.
C30_AsStated ==
    pc = "delete" => media = "no_media"

\* C31 as stated: the post safe_submit_video polls, returns or deletes is
\* one created by a submit call of the current invocation, never a post that
\* carried the title before the invocation started.
C31_AsStated ==
    fn = "safe_submit_video" =>
        /\ submission \in {None, "new"}
        /\ result.kind = "submission" => result.post = "new"

\* C32.  safe_submit_video never raises to its caller, whatever the external
\* calls do: while it runs it has no result, and it ends with None (after an
\* error, a search without a match or a poll loop that ran out), or with the
\* page reference of a direct submission that created a post, or with the
\* handle of a live post whose playback URL answered 200.
C32_SafeNeverRaises ==
    fn = "safe_submit_video" =>
        /\ exit # "raise" /\ result # Raised
        /\ pc # "done" => (exit = "running" /\ result = NoResult)
        /\ pc = "done" =>
              \/ /\ result = ReturnNone
                 /\ exit \in {"exception", "not_found", "never_ready"}
              \/ /\ exit = "direct"
                 /\ DirectSucceeded(result.kind) /\ result.post = None
                 /\ result.kind \notin {"raise", "submission"}
                 /\ live_new >= 1
              \/ /\ exit = "ready"
                 /\ result = [kind |-> "submission", post |-> submission]
                 /\ submission \in LiveOrigins
                 /\ head_status = 200

\* An external call failed inside a restarted activation, and the None of
\* the innermost handler is the result of the whole call.
C32_ErrorInsideRestart ==
    /\ fn = "safe_submit_video"
    /\ depth >= 1
    /\ pc = "done"
    /\ exit = "exception"
    /\ result = ReturnNone
    /\ failed # {}

\* The crosspost block of main has run: its outcome was handed to Telegram.
CrosspostAttempted ==
    \E i \in 1..Len(sent) :
        sent[i].message \in
            {"crosspost_summary", "crosspost_all_failed", "crosspost_failed"}

\* C33.  In main the deletion of the source file is reached only with a post
\* URL returned by the upload and with the crosspost block behind it; when
\* the upload raised nothing is deleted; the upload is called at most once
\* per run, on the one file chosen; and after a pass that failed for every
\* target the deletion is still the next step and can succeed.
C33_DeleteAfterUploadAndCrosspost ==
    /\ (main_pc = "delete" \/ deleted # "unset") =>
          /\ url.kind = "permalink"
          /\ CrosspostAttempted
          /\ cp_pc = "returned" \/ "crosspost_process" \in logged
          /\ main_exit \in {"running", "completed"}
    /\ main_exit = "process_failed" => (url = NoResult /\ deleted = "unset")
    /\ ENABLED MainUpload =>
          (url = NoResult /\ file \in {"video", "image"} /\ deleted = "unset")
    /\ url # NoResult => ~ENABLED MainUpload
    /\ ENABLED MainDelete => deleted = "unset"
    /\ (main_pc = "crossposting" /\ cp_pc = "returned"
          /\ crosspost_result.successful = <<>>) =>
             /\ ENABLED MainCrosspostSummary
             /\ ~ENABLED (MainCrosspostSummary /\ main_pc' # "delete")
    /\ main_pc = "delete" => ENABLED (MainDelete /\ deleted' = "deleted")

\* The source file was deleted after a pass in which every target was tried
\* and every one failed.
C33_DeletedAfterAllFailed ==
    /\ driver = "main"
    /\ deleted = "deleted"
    /\ Len(attempts) = MaxTargets
    /\ crosspost_result.successful = <<>>
    /\ Len(crosspost_result.failed) = MaxTargets

\* How far upload_to_reddit has come: the place in its body, then the
\* searches and re-fetches made in its two loops.
UploadStage(p) ==
    CASE p = "download" -> 0
      [] p = "convert" -> 1
      [] p = "u_thumbnail" -> 2
      [] p = "tempfiles" -> 3
      [] p = "u_submit" -> 4
      [] p = "find" -> 5
      [] p = "u_fetch" -> 6
      [] p = "u_permalink" -> 7
      [] OTHER -> 8
UploadRank == UploadStage(pc) * (find_max_retries + max_retries + 1)
                  + searches + fetches

\* The bounds of one call of upload_to_reddit, and its two ways to end.
UploadBounds ==
    fn = "upload_to_reddit" =>
        /\ calls.fallback <= 1 /\ calls.direct = 0
        /\ searches <= find_max_retries
        /\ fetches <= max_retries
        /\ depth = 0 /\ calls.ghost = 0 /\ calls.delete = 0
        /\ "permalink" \in issued => (fetches = max_retries /\ media = "raise")
        /\ (searches > 0 \/ fetches > 0) => calls.fallback = 1
        /\ pc = "done" \/ ENABLED Next
        /\ pc # "done" => (exit = "running" /\ result = NoResult)
        /\ pc = "done" =>
              \/ result = Raised
              \/ /\ result = [kind |-> "permalink", post |-> submission]
                 /\ submission \in Origins
                 /\ calls.fallback = 1
                 /\ exit \in {"ready", "timeout"}

\* C34.  Each call of upload_to_reddit ends after a bounded number of remote
\* calls: at most one submit call, at most find_max_retries (3) title
\* searches and at most max_retries (6) re-fetches in the poll loop, with no
\* delete call and no restart; every step takes it further, it is never
\* stuck before its end, and it ends by returning a permalink or by raising.
C34_UploadTerminatesBounded ==
    /\ []UploadBounds
    /\ [][fn = "upload_to_reddit" => UploadRank' > UploadRank]_vars

\* A call that used every search and every re-fetch it has, and returned
\* the permalink.
C34_AllSearchesAndFetchesUsed ==
    /\ fn = "upload_to_reddit"
    /\ pc = "done"
    /\ calls.fallback = 1
    /\ searches = find_max_retries
    /\ fetches = max_retries
    /\ result = [kind |-> "permalink", post |-> submission]

====
